---- MODULE Spec2Model ----
(***************************************************************************)
(* A model of image_resizer.py: batch discovery, the per-image pipeline    *)
(* (process_image), output path derivation and the encoder call.           *)
(*                                                                         *)
(* Text is a sequence of one-character strings (<<"a", ".", "j">>), a      *)
(* path is the sequence of its components below the file system root, and  *)
(* an Optional[str] is either None or a text.                              *)
(***************************************************************************)
EXTENDS Integers, Sequences, FiniteSets, TLC

VARIABLES
    args,       \* the arguments: of main, or of the function under call
    ret,        \* what the call returned, NoRet before the call
    cfg,        \* the resolved options of main(): one value for the whole run
    fs,         \* the file system: path -> decoded content, DOMAIN fs = existing files
    pc,         \* position of main(): "start", "loop", "done"
    images,     \* the list discover_images returned
    idx,        \* index of the next element of images the for loop takes
    outcomes,   \* per processed file: "saved", "skipped-exists" or "failed"
    count,      \* main's count of truthy results
    stderr,     \* the sources process_image reported as failed, in order
    written,    \* the destinations img.save opened for writing in this run
    exit_code,  \* main's return value, NoRet while it runs
    run,        \* the invocation of the tool under way: the first (1) or the second (2)
    faults,     \* number of calls the environment made fail so far
    fs0,        \* the file system as the current invocation found it
    last        \* what the latest process_image call did

bvars == <<cfg, fs, pc, images, idx, outcomes, count, stderr, written, exit_code, run, faults, fs0, last>>
vars == <<args, ret, cfg, fs, pc, images, idx, outcomes, count, stderr, written, exit_code, run, faults, fs0, last>>

None == <<"None">>
\* ret, exit_code and last hold <<>> before there is a value and <<value>> after.
NoRet == <<>>

\* Python truthiness of an Optional[str]: None and "" are falsy.
Truthy(s) == s # None /\ s # <<>>

---------------------------------------------------------------------------
(* str and pathlib primitives *)

UpperAlpha == <<"A","B","C","D","E","F","G","H","I","J","K","L","M",
                "N","O","P","Q","R","S","T","U","V","W","X","Y","Z">>
LowerAlpha == <<"a","b","c","d","e","f","g","h","i","j","k","l","m",
                "n","o","p","q","r","s","t","u","v","w","x","y","z">>

LowerChar(c) ==
    IF \E i \in 1..Len(UpperAlpha) : UpperAlpha[i] = c
    THEN LowerAlpha[CHOOSE i \in 1..Len(UpperAlpha) : UpperAlpha[i] = c]
    ELSE c

UpperChar(c) ==
    IF \E i \in 1..Len(LowerAlpha) : LowerAlpha[i] = c
    THEN UpperAlpha[CHOOSE i \in 1..Len(LowerAlpha) : LowerAlpha[i] = c]
    ELSE c

\* str.lower() and str.upper()
lower(s) == [i \in 1..Len(s) |-> LowerChar(s[i])]
upper(s) == [i \in 1..Len(s) |-> UpperChar(s[i])]

\* str.startswith(".")
startswith_dot(s) == Len(s) > 0 /\ s[1] = "."

\* str.lstrip(".")
RECURSIVE lstrip_dot(_)
lstrip_dot(s) == IF startswith_dot(s) THEN lstrip_dot(Tail(s)) ELSE s

\* str.rfind("."), 1-based, 0 when there is none
rfind_dot(name) ==
    LET dots == {i \in 1..Len(name) : name[i] = "."}
    IN  IF dots = {} THEN 0 ELSE CHOOSE i \in dots : \A j \in dots : j <= i

\* PurePath.suffix: the last dot starts the suffix unless it is the first or
\* the last character of the name.
path_suffix(name) ==
    LET i == rfind_dot(name)
    IN  IF i > 1 /\ i < Len(name) THEN SubSeq(name, i, Len(name)) ELSE <<>>

\* PurePath.stem
path_stem(name) ==
    LET i == rfind_dot(name)
    IN  IF i > 1 /\ i < Len(name) THEN SubSeq(name, 1, i - 1) ELSE name

Front(p) == SubSeq(p, 1, Len(p) - 1)
Last(p) == p[Len(p)]

\* src.relative_to(src_root) succeeds only when src_root is a prefix of src.
IsUnder(src, root) ==
    Len(root) <= Len(src) /\ SubSeq(src, 1, Len(root)) = root

relative_to(src, root) == SubSeq(src, Len(root) + 1, Len(src))

\* Path.resolve() on an absolute path of a file system without symbolic
\* links: "." components are dropped and ".." components are collapsed.
RECURSIVE resolve(_)
resolve(p) ==
    IF p = <<>> THEN <<>>
    ELSE LET h == resolve(Front(p))
             l == Last(p)
         IN  IF l = <<".">> THEN h
             ELSE IF l = <<".", ".">> THEN (IF h = <<>> THEN <<>> ELSE Front(h))
             ELSE Append(h, l)

\* The path relative_to() raises ValueError for.
ValueError == << <<"ValueError">> >>

---------------------------------------------------------------------------
(* derive_output_path *)

\* rel.stem and rel.suffix read rel.name, which is "" for the empty relative
\* path; rel.parent of that path is the path itself.
rel_name(rel) == IF rel = <<>> THEN <<>> ELSE Last(rel)
rel_parent(rel) == IF rel = <<>> THEN <<>> ELSE Front(rel)

\* A derivation that keeps the letter case of the source's extension.
derive_output_path_keepcase(src, src_root, out_root, suffix, force_ext) ==
    IF ~IsUnder(src, src_root) THEN ValueError
    ELSE
    LET rel  == relative_to(src, src_root)
        base == path_stem(rel_name(rel)) \o (IF Truthy(suffix) THEN suffix ELSE <<>>)
        ext0 == IF Truthy(force_ext) THEN lower(force_ext)
                ELSE path_suffix(rel_name(rel))
        ext  == IF startswith_dot(ext0) THEN ext0 ELSE <<".">> \o ext0
    IN  resolve(out_root \o rel_parent(rel) \o <<base \o ext>>)

derive_output_path(src, src_root, out_root, suffix, force_ext) ==
    IF ~IsUnder(src, src_root) THEN ValueError
    ELSE
    LET rel  == relative_to(src, src_root)
        base == path_stem(rel_name(rel)) \o (IF Truthy(suffix) THEN suffix ELSE <<>>)
        ext0 == IF Truthy(force_ext) THEN lower(force_ext)
                ELSE lower(path_suffix(rel_name(rel)))
        ext  == IF startswith_dot(ext0) THEN ext0 ELSE <<".">> \o ext0
    IN  resolve(out_root \o rel_parent(rel) \o <<base \o ext>>)

---------------------------------------------------------------------------
(* save_image: the call it makes to the encoder *)

\* Image.save without a format looks the destination's lower-cased
\* extension up in the registered extensions; an unknown one raises.
ExtFormat(ext) ==
    CASE ext \in {<<".","j","p","g">>, <<".","j","p","e","g">>} -> "JPEG"
      [] ext = <<".","p","n","g">> -> "PNG"
      [] ext = <<".","w","e","b","p">> -> "WEBP"
      [] ext = <<".","b","m","p">> -> "BMP"
      [] ext = <<".","g","i","f">> -> "GIF"
      [] ext \in {<<".","t","i","f","f">>, <<".","t","i","f">>} -> "TIFF"
      [] OTHER -> "unknown"

\* The format names the encoder registry knows.
FormatName(t) ==
    CASE t \in {<<"J","P","E","G">>} -> "JPEG"
      [] t = <<"P","N","G">> -> "PNG"
      [] t = <<"W","E","B","P">> -> "WEBP"
      [] t = <<"B","M","P">> -> "BMP"
      [] t = <<"G","I","F">> -> "GIF"
      [] t = <<"T","I","F","F">> -> "TIFF"
      [] OTHER -> "unknown"

\* fmt_upper of save_image: None, or the upper-cased token without leading
\* dots, with JPG renamed JPEG.
fmt_upper_of(fmt) ==
    IF ~Truthy(fmt) THEN None
    ELSE LET u == lstrip_dot(upper(fmt))
         IN  IF u = <<"J","P","G">> THEN <<"J","P","E","G">> ELSE u

\* The keyword arguments as a function from their names.
Params(withQuality, quality, withOptimize, optimize) ==
    [k \in (IF withQuality THEN {"quality"} ELSE {})
           \cup (IF withOptimize THEN {"optimize"} ELSE {}) |->
        IF k = "quality" THEN quality ELSE optimize]

\* What save_image passes to img.save: the output format (the forced one,
\* else the one of the destination's extension), whether it was passed as
\* format=, and the keyword arguments.
save_image_call(dest, fmt, quality, optimize) ==
    LET fu  == fmt_upper_of(fmt)
        ext == lower(path_suffix(Last(dest)))
    IN  [format |-> IF Truthy(fu) THEN FormatName(fu) ELSE ExtFormat(ext),
         explicit |-> Truthy(fu),
         params |-> Params(Truthy(fu) \/ ext \in {<<".","j","p","g">>, <<".","j","p","e","g">>,
                                                   <<".","w","e","b","p">>},
                           quality,
                           Truthy(fu) \/ ext \in {<<".","p","n","g">>},
                           optimize)]

---------------------------------------------------------------------------
(* Images and the transform of process_image *)

\* A decoded image: its mode (text), its size, the kind of transparency
\* entry its info carries ("none", "color": one transparent colour,
\* "bytes": an alpha value per palette entry) and whether it carries
\* metadata (EXIF, ICC profile, text chunks).
Img(mode, w, h, transparency, meta) ==
    [mode |-> mode, size |-> <<w, h>>, transparency |-> transparency, meta |-> meta]

\* What a file holds when it does not decode.
Corrupt == [mode |-> <<"corrupt">>, size |-> <<0, 0>>, transparency |-> "none", meta |-> FALSE]

\* The outcome of a step that raised.
Raised == [mode |-> <<"raised">>, size |-> <<0, 0>>, transparency |-> "none", meta |-> FALSE]

RGB == <<"R","G","B">>
RGBA == <<"R","G","B","A">>

\* "A" in mode
HasLetterA(mode) == \E i \in 1..Len(mode) : mode[i] = "A"

\* Image.convert(mode): the pixels are converted; a transparent colour of
\* the info survives a conversion between L, RGB and P, an alpha value per
\* palette entry does not; a conversion to a mode with an alpha band turns
\* the entry into the band.
convert(im, mode) ==
    [im EXCEPT !.mode = mode,
               !.transparency =
                   IF HasLetterA(mode) \/ im.transparency = "bytes" THEN "none"
                   ELSE im.transparency]

\* The colour-mode normalisation of process_image.
normalize_mode(im) ==
    IF im.mode \notin {RGB, RGBA}
    THEN IF im.mode \in {<<"P">>, <<"L","A">>, <<"L">>}
         THEN convert(im, IF HasLetterA(im.mode) THEN RGBA ELSE RGB)
         ELSE convert(im, RGB)
    ELSE im

\* A decision that also refuses to shrink.
should_resize_never(current, target, allow_upscale) == allow_upscale

should_resize(current, target, allow_upscale) ==
    IF ~allow_upscale /\ (current[1] <= target[1] /\ current[2] <= target[2])
    THEN FALSE
    ELSE TRUE

\* round(n / d) of Python for n >= 0, d > 0: to the nearest integer, a tie
\* to the even one. ImageOps.contain takes the quotient in floating point,
\* which gives this value for all sides up to 21 and, beyond, differs from
\* it by the direction of a tie at most.
round_div(n, d) ==
    LET q == n \div d
        r == n % d
    IN  IF 2 * r < d THEN q
        ELSE IF 2 * r > d THEN q + 1
        ELSE IF q % 2 = 0 THEN q ELSE q + 1

\* Image.resize(size): a size with a zero side raises.
resize(im, size) ==
    IF size[1] < 1 \/ size[2] < 1 THEN Raised ELSE [im EXCEPT !.size = size]

\* The size ImageOps.contain resizes to.
contain_size(cur, target) ==
    LET w == cur[1]
        h == cur[2]
        tw == target[1]
        th == target[2]
    IN  IF w * th # tw * h
        THEN IF w * th > tw * h
             THEN <<tw, round_div(h * tw, w)>>
             ELSE <<round_div(w * th, h), th>>
        ELSE target

resize_image_keep_aspect(im, target) == resize(im, contain_size(im.size, target))

\* strip_metadata: a new image of the same mode and size that holds the
\* pixels only.
strip_metadata(im) == [im EXCEPT !.transparency = "none", !.meta = FALSE]

\* An exact mode that honours the upscale decision.
resized_of_guarded(im, target_size, keep_aspect, allow_upscale) ==
    IF should_resize(im.size, target_size, allow_upscale)
    THEN (IF keep_aspect THEN resize_image_keep_aspect(im, target_size)
          ELSE resize(im, target_size))
    ELSE im

\* Lines 123-132 of process_image: the resized image of a normalised one.
resized_of(im, target_size, keep_aspect, allow_upscale) ==
    IF keep_aspect
    THEN IF should_resize(im.size, target_size, allow_upscale)
         THEN resize_image_keep_aspect(im, target_size)
         ELSE im
    ELSE resize(im, target_size)

\* The body of the with block of process_image: decode, normalise, resize,
\* strip. Raised when a step raises.
transform(content, target_size, keep_aspect, allow_upscale, strip_meta) ==
    IF content = Corrupt THEN Raised
    ELSE LET im == normalize_mode(content)
             resized == resized_of(im, target_size, keep_aspect, allow_upscale)
         IN  IF resized = Raised THEN Raised
             ELSE IF strip_meta THEN strip_metadata(resized) ELSE resized

---------------------------------------------------------------------------
(* Inputs *)

\* Largest side of a source image and of the target box.
MaxDim == 4

Sides == 1..MaxDim

\* File names: they differ in stem, in extension or in the letter case of
\* the extension only.
N_a_jpg == <<"a",".","j","p","g">>
N_a_JPG == <<"a",".","J","P","G">>
N_a_png == <<"a",".","p","n","g">>
N_b_PNG == <<"b",".","P","N","G">>
N_a_tar_Gif == <<"a",".","t",".","G","i","f">>
N_a_webp == <<"a",".","w","e","b","p">>

D_S == <<"S">>
D_O == <<"O">>
D_d == <<"d">>
D_o == <<"o">>

T_s == <<"_","s">>
T_webp == <<"w","e","b","p">>
T_dotPNG == <<".","P","N","G">>
T_jpg == <<"j","p","g">>
T_jpeg == <<"j","p","e","g">>
T_JPG == <<"J","P","G">>
T_png == <<"p","n","g">>
T_bmp == <<"b","m","p">>

Modes == {<<"1">>, <<"L">>, <<"L","A">>, <<"P">>, <<"P","A">>, RGB, RGBA, <<"C","M","Y","K">>}

\* The transparency entries a decoder produces for a mode.
TransparencyOf(mode) ==
    IF mode = <<"P">> THEN {"none", "color", "bytes"}
    ELSE IF mode \in {<<"L">>, RGB} THEN {"none", "color"}
    ELSE {"none"}

\* The values of the batch variables while a single function is under call.
BatchIdle ==
    /\ cfg = None /\ fs = <<>> /\ pc = "idle" /\ images = <<>> /\ idx = 0
    /\ outcomes = <<>> /\ count = 0 /\ stderr = <<>> /\ written = {}
    /\ exit_code = NoRet /\ run = 0 /\ faults = 0 /\ fs0 = <<>> /\ last = NoRet

---------------------------------------------------------------------------
(* derive_output_path called on two sources of one source root *)

\* Sources discover_images can return: their extension is a supported one.
PathSources ==
    {<<D_S, n>> : n \in {N_a_jpg, N_a_JPG, N_a_png, N_b_PNG, N_a_tar_Gif}}
    \cup {<<D_S, D_d, N_a_jpg>>}

InitPath ==
    /\ args \in [src : PathSources, src2 : PathSources, src_root : {<<D_S>>},
                 out_root : {<<D_O>>, <<D_S>>},
                 suffix : {None, <<>>, T_s},
                 force_ext : {None, T_webp, T_dotPNG}]
    /\ ret = NoRet
    /\ BatchIdle

DerivePaths ==
    /\ ret = NoRet
    /\ ret' = <<derive_output_path(args.src, args.src_root, args.out_root,
                                   args.suffix, args.force_ext),
                derive_output_path(args.src2, args.src_root, args.out_root,
                                   args.suffix, args.force_ext)>>
    /\ UNCHANGED <<args, bvars>>

NextPath == DerivePaths

SpecPath == InitPath /\ [][NextPath]_vars

---------------------------------------------------------------------------
(* save_image called on a destination *)

InitSave ==
    /\ args \in [dest : {<<D_O, n>> : n \in {N_a_jpg, N_a_JPG, N_a_png, N_b_PNG,
                                              N_a_webp, N_a_tar_Gif}},
                 fmt : {None, <<>>, T_jpg, T_jpeg, T_JPG, T_png, T_dotPNG, T_webp, T_bmp},
                 quality : {1, 85, 100},
                 optimize : BOOLEAN]
    /\ ret = NoRet
    /\ BatchIdle

SaveImage ==
    /\ ret = NoRet
    /\ ret' = <<save_image_call(args.dest, args.fmt, args.quality, args.optimize)>>
    /\ UNCHANGED <<args, bvars>>

NextSave == SaveImage

SpecSave == InitSave /\ [][NextSave]_vars

---------------------------------------------------------------------------
(* The transform of process_image applied to one decoded image *)

InitTransform ==
    /\ \E mode \in Modes, w \in Sides, h \in Sides, meta \in BOOLEAN :
       \E tr \in TransparencyOf(mode), tw \in Sides, th \in Sides :
       \E ka \in BOOLEAN, up \in BOOLEAN, strip \in BOOLEAN :
          args = [im |-> Img(mode, w, h, tr, meta), target_size |-> <<tw, th>>,
                  keep_aspect |-> ka, allow_upscale |-> up, strip_meta |-> strip]
    /\ ret = NoRet
    /\ BatchIdle

\* The with block of process_image, with the values it passes through.
Transform ==
    /\ ret = NoRet
    /\ ret' = <<[normalized |-> normalize_mode(args.im),
               should |-> should_resize(normalize_mode(args.im).size, args.target_size,
                                        args.allow_upscale),
               resized |-> transform(args.im, args.target_size, args.keep_aspect,
                                     args.allow_upscale, args.strip_meta)]>>
    /\ UNCHANGED <<args, bvars>>

NextTransform == Transform

SpecTransform == InitTransform /\ [][NextTransform]_vars

---------------------------------------------------------------------------
(* The file system *)

\* The entry of a directory.
Dir == [mode |-> <<"dir">>, size |-> <<0, 0>>, transparency |-> "none", meta |-> FALSE]

Exists(fsys, p) == p \in DOMAIN fsys
IsDir(fsys, p) == Exists(fsys, p) /\ fsys[p] = Dir
IsFile(fsys, p) == Exists(fsys, p) /\ fsys[p] # Dir

Files(fsys) == {p \in DOMAIN fsys : fsys[p] # Dir}

\* fsys with path p holding content c.
Put(fsys, p, c) == [q \in DOMAIN fsys \cup {p} |-> IF q = p THEN c ELSE fsys[q]]

\* Path.mkdir(parents=True, exist_ok=True): the directory and its missing
\* parents.
mkdir_p(fsys, d) ==
    LET new == {SubSeq(d, 1, n) : n \in 1..Len(d)} \ DOMAIN fsys
    IN  [q \in DOMAIN fsys \cup new |-> IF q \in new THEN Dir ELSE fsys[q]]

---------------------------------------------------------------------------
(* discover_images *)

SUPPORTED_EXTS ==
    {<<".","j","p","g">>, <<".","j","p","e","g">>, <<".","p","n","g">>,
     <<".","w","e","b","p">>, <<".","b","m","p">>, <<".","t","i","f","f">>,
     <<".","g","i","f">>}

\* The files discover_images returns, as a set.
discovered(fsys, root, recursive, include_exts) ==
    LET exts == IF include_exts # {} THEN {lower(e) : e \in include_exts}
                ELSE SUPPORTED_EXTS
    IN  {p \in Files(fsys) :
            /\ IsUnder(p, root) /\ p # root
            /\ (recursive \/ Len(p) = Len(root) + 1)
            /\ lower(path_suffix(Last(p))) \in exts}

\* The sequences that list each element of set S once.
RECURSIVE Orderings(_)
Orderings(S) ==
    IF S = {} THEN {<<>>}
    ELSE UNION {{<<x>> \o q : q \in Orderings(S \ {x})} : x \in S}

\* The orders os.walk and os.listdir can list them in: the entries of a
\* directory come in any order, one directory after the other, a directory
\* before the directories below it.
discover_images(fsys, root, recursive, include_exts) ==
    LET found == discovered(fsys, root, recursive, include_exts)
    IN  {order \in Orderings(found) :
            /\ \A i, j \in 1..Len(order) :
                  i < j => ~(IsUnder(Front(order[i]), Front(order[j]))
                             /\ Front(order[i]) # Front(order[j]))
            /\ \A i, j, k \in 1..Len(order) :
                  (i < j /\ j < k /\ Front(order[i]) = Front(order[k]))
                      => Front(order[j]) = Front(order[i])}

---------------------------------------------------------------------------
(* process_image *)

\* Where a call of process_image can be made to raise by its environment
\* (an unreadable or undecodable source, a conversion or a resampling that
\* fails, a path that does not resolve, a directory that cannot be made, an
\* encoder or a disk that fails).
FailPoints == {"none", "open", "convert", "resize", "derive", "mkdir", "encode"}

\* A check that skips every existing destination.
overwrite_blocks_always(exists, overwrite) == exists

\* Line 138: an existing destination is kept unless overwrite is set.
overwrite_blocks(exists, overwrite) == exists /\ ~overwrite

\* A handler that lets the exception through.
on_exception_reraise(src, errs) == [propagates |-> TRUE, stderr |-> errs]

\* Lines 142-144: the exception is reported on stderr and swallowed.
on_exception(src, errs) == [propagates |-> FALSE, stderr |-> Append(errs, src)]

\* save_image on file system fsys. An encoder that fails after the file
\* was opened leaves an existing file truncated; a file the call created
\* is removed again or left behind (leaves), depending on the library.
save_image(fsys, img, dest, fmt, quality, optimize, fail, leaves) ==
    LET made == mkdir_p(fsys, Front(dest))
        call == save_image_call(dest, fmt, quality, optimize)
    IN  IF fail = "mkdir" THEN [ok |-> FALSE, fs |-> fsys, opened |-> FALSE]
        ELSE IF call.format = "unknown" \/ IsDir(made, dest)
        THEN [ok |-> FALSE, fs |-> made, opened |-> FALSE]
        ELSE IF fail = "encode"
        THEN [ok |-> FALSE,
              fs |-> IF Exists(fsys, dest) \/ leaves THEN Put(made, dest, Corrupt)
                     ELSE made,
              opened |-> TRUE]
        ELSE [ok |-> TRUE, fs |-> Put(made, dest, img), opened |-> TRUE]

\* One call of process_image on file system fsys under options c:
\* the outcome, the file system it leaves, what it appended to stderr
\* (errs), and whether the call reached the overwrite check and opened the
\* destination for writing.
process_image(fsys, errs, src, c, fail, leaves) ==
    LET resized == IF fail \in {"open", "convert", "resize"} THEN Raised
                   ELSE transform(fsys[src], c.target_size, c.keep_aspect,
                                  c.allow_upscale, c.strip_meta)
        dest == IF fail = "derive" THEN ValueError
                ELSE derive_output_path(src, c.src_root, c.out_root, c.suffix, c.force_ext)
        saved == save_image(fsys, resized, dest, c.force_ext, c.quality, c.optimize,
                            fail, leaves)
        caught == on_exception(src, errs)
        failed == [outcome |-> "failed", result |-> None, fs |-> fsys,
                   stderr |-> caught.stderr, propagates |-> caught.propagates,
                   dest |-> dest, reached |-> FALSE, opened |-> FALSE]
    IN  IF resized = Raised \/ dest = ValueError THEN failed
        ELSE IF overwrite_blocks(Exists(fsys, dest), c.overwrite)
        THEN [outcome |-> "skipped-exists", result |-> None, fs |-> fsys,
              stderr |-> errs, propagates |-> FALSE,
              dest |-> dest, reached |-> TRUE, opened |-> FALSE]
        ELSE IF ~saved.ok
        THEN [failed EXCEPT !.fs = saved.fs, !.reached = TRUE, !.opened = saved.opened]
        ELSE [outcome |-> "saved", result |-> dest, fs |-> saved.fs,
              stderr |-> errs, propagates |-> FALSE,
              dest |-> dest, reached |-> TRUE, opened |-> TRUE]

---------------------------------------------------------------------------
(* main *)

\* Number of files the source tree holds before the first invocation.
MaxFiles == 2

\* Number of process_image calls the environment makes fail.
MaxFaults == 1

Digits == <<"0","1","2","3","4","5","6","7","8","9">>

\* str(n) for n >= 0
RECURSIVE str_int(_)
str_int(n) ==
    IF n < 10 THEN <<Digits[n + 1]>>
    ELSE str_int(n \div 10) \o <<Digits[(n % 10) + 1]>>

T_auto == <<"_","a","u","t","o">>

\* <script_dir>/resized
DefaultOut == << <<"a","p","p">>, <<"r","e","s","i","z","e","d">> >>

\* Lines 180-210 of main: the options of the run, from the parsed
\* arguments a. exact is TRUE after parse_args (set_defaults).
main_config(a) ==
    LET exact0 == TRUE
        keep_aspect0 == a.keep_aspect_flag
        exact == IF exact0 /\ keep_aspect0 THEN FALSE ELSE exact0
        upscale == IF a.no_upscale THEN FALSE ELSE TRUE
    IN  [src_root |-> resolve(a.source),
         out_root |-> IF a.output # None THEN resolve(a.output) ELSE resolve(DefaultOut),
         include_exts |-> {<<".">> \o lstrip_dot(lower(e)) : e \in a.include},
         target_size |-> a.size,
         keep_aspect |-> IF keep_aspect0 THEN keep_aspect0 ELSE (~exact /\ TRUE),
         allow_upscale |-> upscale,
         suffix |-> IF a.suffix = T_auto
                    THEN <<"_">> \o str_int(a.size[1]) \o <<"x">> \o str_int(a.size[2])
                    ELSE a.suffix,
         force_ext |-> IF Truthy(a.ext) THEN a.ext ELSE None,
         strip_meta |-> a.strip_metadata,
         overwrite |-> a.overwrite,
         quality |-> a.quality,
         optimize |-> a.png_optimize,
         recursive |-> a.recursive]

\* The source image of the batch runs and an older output left by an
\* earlier use of the tool.
SourceImg == Img(RGB, 3, 2, "none", TRUE)
OldImg == Img(RGB, 1, 1, "none", FALSE)

\* Files a source tree may hold.
SourceFiles == {<<D_S, N_a_jpg>>, <<D_S, N_a_JPG>>, <<D_S, D_d, N_a_jpg>>}

\* The tree that holds the files of set F.
TreeOf(F) ==
    LET dirs == UNION {{SubSeq(p, 1, n) : n \in 1..(Len(p) - 1)} : p \in F}
    IN  [q \in F \cup dirs \cup {<<D_S>>} |-> IF q \in F THEN SourceImg ELSE Dir]

\* Command lines: every output folder (the default one, the source folder
\* itself, a folder inside it) with and without --overwrite and a suffix,
\* and flat runs with and without a forced extension.
Argvs ==
    [source : {<<D_S, <<".">> >>},
     output : {None, <<D_S>>, <<D_S, D_o>>},
     size : {<<2, 2>>},
     keep_aspect_flag : {FALSE},
     no_upscale : {FALSE},
     ext : {None},
     suffix : {<<>>, T_auto},
     include : {{}},
     recursive : {TRUE},
     overwrite : BOOLEAN,
     quality : {85},
     png_optimize : {TRUE},
     strip_metadata : {TRUE}]
    \cup
    [source : {<<D_S, <<".">> >>},
     output : {None, <<D_S>>},
     size : {<<2, 2>>},
     keep_aspect_flag : {TRUE},
     no_upscale : {TRUE},
     ext : {None, T_webp},
     suffix : {T_auto},
     include : {{T_JPG}},
     recursive : {FALSE},
     overwrite : BOOLEAN,
     quality : {85},
     png_optimize : {FALSE},
     strip_metadata : {FALSE}]

\* The destination main derives for source p under options c.
DestOf(p, c) == derive_output_path(p, c.src_root, c.out_root, c.suffix, c.force_ext)

\* The trees the first invocation may find: no source folder at all, or
\* some source files, with or without the output an earlier use of the
\* tool left for one of them.
Init ==
    /\ args \in Argvs
    /\ ret = NoRet
    /\ cfg = main_config(args)
    /\ \/ fs = <<>>
       \/ \E F \in SUBSET SourceFiles :
             /\ Cardinality(F) <= MaxFiles
             /\ \/ fs = TreeOf(F)
                \/ \E p \in F :
                      /\ DestOf(p, cfg) \notin F
                      /\ fs = Put(mkdir_p(TreeOf(F), Front(DestOf(p, cfg))),
                                  DestOf(p, cfg), OldImg)
    /\ pc = "start"
    /\ images = <<>> /\ idx = 0 /\ outcomes = <<>> /\ count = 0
    /\ stderr = <<>> /\ written = {} /\ exit_code = NoRet
    /\ run = 1 /\ fs0 = fs /\ last = NoRet /\ faults = 0

\* Lines 180-183: the source folder is missing or no directory.
SourceMissing ==
    /\ pc = "start"
    /\ ~IsDir(fs, cfg.src_root)
    /\ pc' = "done"
    /\ exit_code' = <<2>>
    /\ UNCHANGED <<args, ret, cfg, fs, images, idx, outcomes, count, stderr, written,
                   run, faults, fs0, last>>

\* Lines 184-217: the output folder is made and the sources are listed;
\* without any the run ends.
Discover ==
    /\ pc = "start"
    /\ IsDir(fs, cfg.src_root)
    /\ ~IsFile(fs, cfg.out_root)       \* mkdir raises on a file: main stops there
    /\ fs' = mkdir_p(fs, cfg.out_root)
    /\ \E found \in discover_images(fs', cfg.src_root, cfg.recursive, cfg.include_exts) :
          /\ images' = found
          /\ IF found = <<>>
             THEN pc' = "done" /\ exit_code' = <<0>>
             ELSE pc' = "loop" /\ exit_code' = exit_code
    /\ idx' = 1
    /\ count' = 0
    /\ UNCHANGED <<args, ret, cfg, outcomes, stderr, written, run, faults, fs0, last>>

\* Lines 218-234: one turn of the for loop. An exception process_image
\* lets through ends main with exit status 1.
ProcessImage ==
    /\ pc = "loop"
    /\ idx <= Len(images)
    /\ \E fail \in FailPoints, leaves \in BOOLEAN :
          /\ fail # "none" => faults < MaxFaults
          /\ leaves => fail = "encode"
          /\ faults' = IF fail = "none" THEN faults ELSE faults + 1
          /\ \E src \in {images[idx]} :
             \E r \in {process_image(fs, stderr, src, cfg, fail, leaves)} :
                  /\ fs' = r.fs
                  /\ stderr' = r.stderr
                  /\ written' = IF r.opened THEN written \cup {r.dest} ELSE written
                  /\ last' = <<[src |-> src, dest |-> r.dest, outcome |-> r.outcome,
                                reached |-> r.reached,
                                existed |-> r.reached /\ Exists(fs, r.dest)]>>
                  /\ IF r.propagates
                     THEN /\ pc' = "done"
                          /\ exit_code' = <<1>>
                          /\ UNCHANGED <<outcomes, count, idx>>
                     ELSE /\ outcomes' = Append(outcomes, [src |-> src, outcome |-> r.outcome])
                          /\ count' = IF r.result # None THEN count + 1 ELSE count
                          /\ idx' = idx + 1
                          /\ UNCHANGED <<pc, exit_code>>
    /\ UNCHANGED <<args, ret, cfg, images, run, fs0>>

\* Lines 236-237: the summary line and exit status 0.
Finish ==
    /\ pc = "loop"
    /\ idx > Len(images)
    /\ pc' = "done"
    /\ exit_code' = <<0>>
    /\ UNCHANGED <<args, ret, cfg, fs, images, idx, outcomes, count, stderr, written,
                   run, faults, fs0, last>>

\* The tool is invoked a second time, with the same arguments.
RunAgain ==
    /\ pc = "done"
    /\ run = 1
    /\ run' = 2
    /\ pc' = "start"
    /\ fs0' = fs
    /\ images' = <<>> /\ idx' = 0 /\ outcomes' = <<>> /\ count' = 0
    /\ stderr' = <<>> /\ written' = {} /\ exit_code' = NoRet /\ last' = NoRet
    /\ UNCHANGED <<args, ret, cfg, fs, faults>>

Next == SourceMissing \/ Discover \/ ProcessImage \/ Finish \/ RunAgain

Spec == Init /\ [][Next]_vars

---------------------------------------------------------------------------
(* Properties *)

Outcomes == {"saved", "skipped-exists", "failed"}

\* C1: in main's batch loop a failure of process_image on one file never
\* aborts the batch: whatever calls fail, the files are processed one by
\* one in the order discover_images listed them, each exactly once and each
\* with exactly one of the outcomes saved, skipped-exists, failed, and a run
\* that entered the loop ends with every file processed and exit status 0.
C1_BatchNeverAborts ==
    /\ Len(outcomes) <= Len(images)
    /\ pc = "loop" => Len(outcomes) = idx - 1
    /\ \A i \in 1..Len(outcomes) :
          outcomes[i].src = images[i] /\ outcomes[i].outcome \in Outcomes
    /\ (pc = "done" /\ images # <<>>) =>
          Len(outcomes) = Len(images) /\ exit_code = <<0>>

\* A run in which the first file failed and the second one was saved.
C1_Witness ==
    /\ pc = "done" /\ exit_code = <<0>>
    /\ Len(outcomes) >= 2
    /\ outcomes[1].outcome = "failed"
    /\ outcomes[2].outcome = "saved"

\* C2: the overwrite policy of process_image (lines 137-141, which a call
\* reaches once the source is decoded and transformed and the destination
\* is derived): when the destination exists and overwrite is off, the file
\* is skipped, the file system stays as it is, nothing is written and
\* nothing is reported on stderr; when overwrite is on the file is not
\* skipped, and the destination holds the newly encoded image once
\* save_image has returned.
C2_OverwritePolicy ==
    [][(pc = "loop" /\ idx' = idx + 1) =>
        LET src == images[idx]
            dest == DestOf(src, cfg)
            new == transform(fs[src], cfg.target_size, cfg.keep_aspect,
                             cfg.allow_upscale, cfg.strip_meta)
        IN  (last'[1].reached /\ Exists(fs, dest)) =>
               IF ~cfg.overwrite
               THEN /\ outcomes'[idx].outcome = "skipped-exists"
                    /\ fs' = fs
                    /\ written' = written
                    /\ stderr' = stderr
                    /\ count' = count
               ELSE /\ outcomes'[idx].outcome # "skipped-exists"
                    /\ outcomes'[idx].outcome = "saved" =>
                          fs'[dest] = new /\ count' = count + 1]_vars

\* A file was skipped because an older output was in its place, and the
\* older output is still there.
C2_Witness ==
    /\ last # NoRet
    /\ last[1].existed /\ ~cfg.overwrite
    /\ last[1].outcome = "skipped-exists"
    /\ last[1].dest # last[1].src
    /\ fs[last[1].dest] = OldImg

\* C3: output paths are unique: two distinct source files under the same
\* source root get two different destinations from derive_output_path
\* called with the same output root, suffix and forced extension.
C3_OutputPathsUnique ==
    (ret # NoRet /\ args.src # args.src2) => ret[1] # ret[2]

\* C4: source files are never mutated: no file discovered as a source is
\* written, replaced or deleted by the run.
C4_SourcesNeverMutated ==
    \A i \in 1..Len(images) :
        /\ images[i] \notin written
        /\ Exists(fs, images[i])
        /\ fs[images[i]] = fs0[images[i]]

\* C5: output dimensions of process_image: in aspect-preserving mode the
\* output never exceeds the target box in width or in height; in exact
\* mode it has exactly the target width and height, whatever the source
\* size and the upscale flag.
C5_OutputDimensions ==
    (ret # NoRet /\ ret[1].resized # Raised) =>
        IF args.keep_aspect
        THEN /\ ret[1].resized.size[1] <= args.target_size[1]
             /\ ret[1].resized.size[2] <= args.target_size[2]
        ELSE ret[1].resized.size = args.target_size

\* Exact mode enlarged a smaller source although upscaling was disallowed.
C5_Witness ==
    /\ ret # NoRet
    /\ ~args.keep_aspect /\ ~args.allow_upscale
    /\ args.im.size[1] < args.target_size[1]
    /\ args.im.size[2] < args.target_size[2]
    /\ ret[1].resized.size = args.target_size

\* C6: should_resize returns false exactly when upscaling is disallowed
\* and the current width and height are both at most the target's;
\* consequently, in aspect-preserving mode with upscaling disallowed a
\* source that fits within the target keeps its dimensions.
C6_ResizeDecision ==
    ret # NoRet =>
        LET fits == /\ args.im.size[1] <= args.target_size[1]
                    /\ args.im.size[2] <= args.target_size[2]
        IN  /\ ret[1].should = FALSE <=> (~args.allow_upscale /\ fits)
            /\ (args.keep_aspect /\ ~args.allow_upscale /\ fits) =>
                  ret[1].resized.size = args.im.size

\* A source smaller than the target passed through aspect-preserving mode
\* with its dimensions.
C6_Witness ==
    /\ ret # NoRet
    /\ args.keep_aspect /\ ~args.allow_upscale
    /\ args.im.size[1] < args.target_size[1]
    /\ args.im.size[2] < args.target_size[2]
    /\ ret[1].should = FALSE
    /\ ret[1].resized.size = args.im.size

\* C7: encode parameters of save_image: quality is passed to the encoder
\* only when the output format is lossy (JPEG or WebP), optimize only when
\* it is PNG, and a forced format "jpg" gives the call "jpeg" gives.
C7_ParamsByFormat ==
    ret # NoRet =>
        /\ "quality" \in DOMAIN ret[1].params => ret[1].format \in {"JPEG", "WEBP"}
        /\ "optimize" \in DOMAIN ret[1].params => ret[1].format = "PNG"
        /\ args.fmt = T_jpg =>
              ret[1] = save_image_call(args.dest, T_jpeg, args.quality, args.optimize)

\* The destination C8 describes for the source of args, with extension ext.
C8_Composed(ext) ==
    LET rel == relative_to(args.src, args.src_root)
    IN  args.out_root \o Front(rel)
            \o <<path_stem(Last(rel))
                    \o (IF Truthy(args.suffix) THEN args.suffix ELSE <<>>) \o ext>>

C8_Dotted(e) == IF startswith_dot(e) THEN e ELSE <<".">> \o e

HasTransparency(im) == HasLetterA(im.mode) \/ im.transparency # "none"

\* C9: colour-mode normalisation runs before any resize or save and leaves
\* every image in RGB or RGBA: palette, luminance and luminance+alpha
\* images become full-colour and keep their alpha or transparency when they
\* had any, every other mode that is not RGB or RGBA becomes plain RGB.
C9_ModeNormalized ==
    ret # NoRet =>
        LET m == args.im.mode
            n == ret[1].normalized
        IN  /\ n.mode \in {RGB, RGBA}
            /\ ret[1].resized # Raised => ret[1].resized.mode = n.mode
            /\ (m \in {<<"P">>, <<"L">>, <<"L","A">>} /\ HasTransparency(args.im)) =>
                  HasTransparency(n)
            /\ m \notin {<<"P">>, <<"L">>, <<"L","A">>, RGB, RGBA} => n.mode = RGB

\* C10: a second run with the same arguments and without --overwrite, no
\* call having failed, creates no file and changes no file.
C10_SecondRunChangesNothing ==
    (run = 2 /\ ~cfg.overwrite /\ faults = 0) =>
        /\ Files(fs) = Files(fs0)
        /\ \A p \in Files(fs0) : fs[p] = fs0[p]

====
